---- MODULE Spec2Model ----
(***************************************************************************)
(* A model of the resumable run/parse/persist pipeline of the number       *)
(* partitioning experiment harness:                                        *)
(*   collect_data.py, collect_termination_data.py  (batch collectors)      *)
(*   collect_ml_features.py                        (streaming features)    *)
(*   extract_termination_stats.py                  (statistics pass)       *)
(* Instance files are numbered 1..NumInst in the lexicographic order of    *)
(* their names, so sorted(os.listdir(..)) is the ascending sequence.       *)
(***************************************************************************)
EXTENDS Integers, Sequences, FiniteSets, TLC

\* ------------------------------------------------------------------ bounds
NumInst == 2
MaxRuns == 2
MaxLogLen == 4
MaxK == 3
MaxLines == 3
MaxItems == 3

\* ------------------------------------------------------- program constants
MAX_RETRIES == 3
DefaultK == 3

Instances == 1..NumInst

Min(a, b) == IF a <= b THEN a ELSE b
Max(a, b) == IF a >= b THEN a ELSE b
Range(s) == {s[n] : n \in DOMAIN s}

\* ------------------------------------------------------------ log events
\* A log event is an open record with at least an `event` field; `seq`
\* stands for the rest of its content, so two events are the same Python
\* dict exactly when both fields agree.
StepA == [event |-> "STEP", seq |-> 1]
StepB == [event |-> "STEP", seq |-> 2]
TimeoutEv == [event |-> "TIMEOUT", seq |-> 3]
TerminateEv == [event |-> "TERMINATE", seq |-> 4]
NoEntry == [event |-> "NONE", seq |-> 0]
EventPool == {StepA, StepB, TimeoutEv, TerminateEv}

\* ------------------------------------------------------- get_num_partitions
\* The instance file seen through its second line: "missing" (no such file),
\* "garbage" (int() raises), or the integer read.
Line2Ints == (-1)..MaxK
Line2Values == {[kind |-> "missing", val |-> 0], [kind |-> "garbage", val |-> 0]}
                 \cup {[kind |-> "int", val |-> v] : v \in Line2Ints}

get_num_partitions(line2) ==
    IF line2.kind = "int" THEN line2.val ELSE DefaultK

\* ------------------------------------------------------------ parse_output
\* log_entries[:k] with Python's slice semantics (a negative k counts from
\* the end).
SlicePrefix(s, k) ==
    IF k >= 0 THEN SubSeq(s, 1, Min(k, Len(s)))
              ELSE SubSeq(s, 1, Max(Len(s) + k, 0))

\* The loop of lines 173-180 keeps the last entry carrying the event.
LastWithEvent(log, ev) ==
    LET idx == {n \in DOMAIN log : log[n].event = ev}
    IN  IF idx = {} THEN NoEntry
        ELSE log[CHOOSE n \in idx : \A m \in idx : m <= n]

AppendIfNew(items, entry) ==
    IF entry # NoEntry /\ entry \notin Range(items)
    THEN Append(items, entry) ELSE items

\* Lines 167-197: the log items returned for a decoded log and k.  (The
\* first variant looks for the sentinels among the first k entries only.)
FeatureRecordSentinelsInPrefix(log, k) ==
    LET timeout_entry == LastWithEvent(SlicePrefix(log, k), "TIMEOUT")
        terminate_entry == LastWithEvent(SlicePrefix(log, k), "TERMINATE")
        log_items == SlicePrefix(log, k)
    IN  AppendIfNew(AppendIfNew(log_items, timeout_entry), terminate_entry)

FeatureRecord(log, k) ==
    LET timeout_entry == LastWithEvent(log, "TIMEOUT")
        terminate_entry == LastWithEvent(log, "TERMINATE")
        log_items == SlicePrefix(log, k)
    IN  AppendIfNew(AppendIfNew(log_items, timeout_entry), terminate_entry)

\* Solver outputs used by the pipeline runs: 0 is text that carries the
\* markers but does not decode to an object with a `log` list; n > 0 is
\* text decoding to PipeLogs[n].
PipeLogs == << <<StepA>>, <<StepA, StepB, TerminateEv>> >>
Outputs == 0..Len(PipeLogs)

\* Lines 123-219 after the debug write: the feature list for one output.
parse_output(out, k) ==
    IF out = 0 THEN << >> ELSE FeatureRecord(PipeLogs[out], k)

\* Line 2 of a generated instance file (generate_synthetic_data.py writes
\* str(k) with k in 3..5).
InstanceLine2(f) == [kind |-> "int", val |-> 3]

\* ------------------------------------------------------------- variables
VARIABLES
    phase,        \* which stage of the corpus life cycle the scenario is in
    prog,         \* the script that is running, "none" when none is
    pc,           \* its position; "idle" when no script is running
    runs,         \* script runs started so far
    aborted,      \* the last run ended with an uncaught exception
    pending,      \* files in instances/synthetic
    solved,       \* files in instances/synthetic_solved
    collected,    \* files in instances/feature_collected
    store,        \* ml_features.jsonl: a sequence of lines of fragments
    tailOpen,     \* ml_features.jsonl does not end with a newline
    backup,       \* backup_results/<file>.json
    debugDir,     \* the directory debug_outputs exists
    debug,        \* debug_outputs/<file>.log: the output it holds
    bstore,       \* solver_output.json
    tstore,       \* termination_stats.jsonl: the filenames of its lines
    instances,    \* main: the enumerated instances
    processed,    \* main: processed_files
    i,            \* main: loop index (1-based)
    retry_count,  \* run_command: retry_count of the innermost call
    invocations,  \* solver invocations made for the current instance
    lastrun,      \* the SolverRun of the latest invocation
    plan,         \* SolverRuns fixed in advance for each call, <<>> if open
    result,       \* collect_ml_features.main: result[file_name]
    parsed,       \* batch main: result (a ParsedResult)
    results,      \* batch main: results
    saved,        \* where this instance's record went: none, store, backup
    wrote,        \* files whose primary store write completed
    wfailed,      \* files whose primary store write raised
    plog,         \* SpecParse: the decoded log
    pline2,       \* SpecParse: the instance file
    precord,      \* SpecParse: the returned log items
    pdone,        \* SpecParse: parse_output has returned
    ptext,        \* the solver's stdout as the patterns and json.loads see it
    pfields,      \* the ParsedResult of the batch parse_output
    pstats,       \* what parse_solver_output returned
    other         \* a second process running the same script: its locals

dirs == <<pending, solved, collected>>
debugFiles == <<debugDir, debug>>
featFiles == <<store, tailOpen, backup, debugFiles>>
batchFiles == <<bstore, tstore>>
locals == <<instances, processed, i>>
cmd == <<retry_count, invocations, lastrun, result, parsed, results, saved>>
hist == <<wrote, wfailed>>
textVars == <<ptext, pfields, pstats>>
parseVars == <<plog, pline2, precord, pdone, textVars>>
vars == <<phase, prog, pc, runs, aborted, dirs, featFiles, batchFiles,
          locals, cmd, plan, other, hist, parseVars>>

\* ------------------------------------------------ the streaming store file
\* ml_features.jsonl is a sequence of lines; a line is the sequence of the
\* fragments of text written on it.  A fragment is the JSON text of one
\* record {file: feat}, whole or cut short ("rec"); a JSON value that is
\* not an object ("nonobj"); or text that is no JSON ("junk").
Frag(k, f, feat, w) == [kind |-> k, file |-> f, feat |-> feat, whole |-> w]
RecFrag(f, feat) == Frag("rec", f, feat, TRUE)

\* f.write(text) in append mode: the text continues the last line when the
\* file does not end with a newline.
AppendText(lines, open, frag) ==
    IF open /\ Len(lines) > 0
    THEN [lines EXCEPT ![Len(lines)] = Append(@, frag)]
    ELSE Append(lines, <<frag>>)

\* json.loads(line.strip()): "object", "value" (valid JSON, not a dict) or
\* "error" (JSONDecodeError: blank, cut short, or several texts on a line).
JsonLoads(line) ==
    IF Len(line) = 1 /\ line[1].whole /\ line[1].kind = "rec" THEN "object"
    ELSE IF Len(line) = 1 /\ line[1].whole /\ line[1].kind = "nonobj" THEN "value"
    ELSE "error"

\* get_processed_files, lines 286-301.  A JSONDecodeError skips the line;
\* data.keys() on a value that is no dict raises AttributeError, which the
\* outer handler catches: the scan ends with what it has.
RECURSIVE ScanLines(_, _, _)
ScanLines(lines, n, acc) ==
    IF n > Len(lines) THEN acc
    ELSE LET d == JsonLoads(lines[n])
         IN  IF d = "error" THEN ScanLines(lines, n + 1, acc)
             ELSE IF d = "object"
                  THEN ScanLines(lines, n + 1, acc \cup {lines[n][1].file})
                  ELSE acc

get_processed_files(lines) == ScanLines(lines, 1, {})

\* The lines of the store that are one valid record, and their filenames.
ValidLines(lines) == {n \in DOMAIN lines : JsonLoads(lines[n]) = "object"}
ValidKeys(lines) == {lines[n][1].file : n \in ValidLines(lines)}
RecordsOf(lines, f) == {n \in ValidLines(lines) : lines[n][1].file = f}

\* sorted(...) of a set of instance files.
SortedSeqDescending(S) ==
    CHOOSE s \in [1..Cardinality(S) -> S] :
        \A a, b \in 1..Cardinality(S) : a < b => s[a] > s[b]

SortedSeq(S) ==
    CHOOSE s \in [1..Cardinality(S) -> S] :
        \A a, b \in 1..Cardinality(S) : a < b => s[a] < s[b]

\* ------------------------------------------------------------ solver runs
\* What one subprocess.run call and the checks after it come to:
\*   timeout    subprocess.TimeoutExpired
\*   exception  any other exception of subprocess.run
\*   empty      stdout blank
\*   nomarkers  stdout without '{', '}' or '"log":'
\*   nonzero    returncode != 0
\*   debugfail  parse_output raised while writing debug_outputs/<file>.log
\*   cut        (only as the content of a debug file) output cut short
\*   parsed     parse_output returned
TransientKinds == {"exception", "empty", "nomarkers", "nonzero", "debugfail"}
SolverRun(k, o) == [kind |-> k, out |-> o]
NoRun == SolverRun("none", 0)
SolverRuns ==
    {SolverRun(k, 0) : k \in {"timeout", "exception", "empty", "nomarkers", "nonzero"}}
      \cup {SolverRun("debugfail", o) : o \in Outputs}
      \cup {SolverRun("parsed", o) : o \in Outputs}

\* The batch scripts and the statistics pass: one invocation, no retry.
BatchKinds == {"timeout", "exception", "nonzero", "parsed"}
StatsKinds == {"timeout", "exception", "nonzero", "nosums", "stats"}
NoResult == [file |-> 0, time |-> "none"]

\* No second process.
NoOther ==
    [pc |-> "idle", prog |-> "none", instances |-> << >>, processed |-> {},
     i |-> 0, invoked |-> 0, wrote |-> 0, moved |-> 0]

Idle ==
    /\ other = NoOther
    /\ instances = << >> /\ processed = {} /\ i = 0
    /\ retry_count = 0 /\ invocations = 0 /\ lastrun = NoRun
    /\ result = << >> /\ parsed = NoResult /\ results = << >>
    /\ saved = "none"

\* --------------------------------------------- the solver's text output
\* The text between the brackets of `Sums: [...]` or `Pi: [...]`, as
\* x.split(',') sees it: a sequence of items, each one a text that
\* int(val.strip()) converts ("int") or rejects ("empty": the item after a
\* trailing comma, the one item of `[]`; "word": any other text).
SumVals == {3, 4, 5, 10, 12}
IntItem(v) == [kind |-> "int", val |-> v]
EmptyItem == [kind |-> "empty", val |-> 0]
WordItem == [kind |-> "word", val |-> 0]
Items == {IntItem(v) : v \in SumVals} \cup {EmptyItem, WordItem}

\* re.search(pattern, output): no match, or the captured items.
NoMatch == [match |-> FALSE, items |-> << >>]
Matched(items) == [match |-> TRUE, items |-> items]
ArrayTexts ==
    {NoMatch} \cup {Matched(t) : t \in UNION {[1..n -> Items] : n \in 1..MaxItems}}

\* [int(val.strip()) for val in x.split(',')]: raises on the first item
\* int() rejects.
IntList(items) ==
    [ok |-> \A n \in DOMAIN items : items[n].kind = "int",
     vals |-> [n \in DOMAIN items |-> items[n].val]]

RECURSIVE SeqSum(_)
SeqSum(q) == IF q = << >> THEN 0 ELSE q[1] + SeqSum(Tail(q))

\* statistics.variance of integers is exact: the sum of the squared
\* deviations from the mean over n - 1, kept here as the fraction
\* (n * sum(x^2) - sum(x)^2) / (n * (n - 1)).  (The first variant divides
\* by n.)
variancePopulation(sums) ==
    LET n == Len(sums)
    IN  [num |-> n * SeqSum([m \in DOMAIN sums |-> sums[m] * sums[m]])
                   - SeqSum(sums) * SeqSum(sums),
         den |-> n * n]

variance(sums) ==
    LET n == Len(sums)
    IN  [num |-> n * SeqSum([m \in DOMAIN sums |-> sums[m] * sums[m]])
                   - SeqSum(sums) * SeqSum(sums),
         den |-> n * (n - 1)]

\* extract_termination_stats.parse_solver_output, lines 113-144; None is
\* the record with no sums.
None == [subset_sum_max |-> 0, subset_sum_min |-> 0,
         subset_sum_variance |-> [num |-> 0, den |-> 1], sums |-> << >>]

parse_solver_output(field) ==
    IF ~field.match THEN None
    ELSE IF ~IntList(field.items).ok THEN None
    ELSE LET sums == IntList(field.items).vals
         IN  [subset_sum_max |-> CHOOSE x \in Range(sums) : \A y \in Range(sums) : y <= x,
              subset_sum_min |-> CHOOSE x \in Range(sums) : \A y \in Range(sums) : x <= y,
              subset_sum_variance |-> IF Len(sums) > 1 THEN variance(sums)
                                      ELSE [num |-> 0, den |-> 1],
              sums |-> sums]

\* One invocation as the batch run_command sees it: the instance, the
\* outcome of subprocess.run, and the output through the five patterns.
\* The text matched by (\{.*?\}) is "invalid" (json.loads raises
\* JSONDecodeError) or an "object" with the given keys.
NoText == [inst |-> 0, kind |-> "none", json |-> "nomatch", keys |-> {},
           sums |-> NoMatch, pi |-> NoMatch, maxsum |-> NoMatch,
           time |-> NoMatch]

\* The values of a ParsedResult, by where they come from: the instance_path
\* argument, a pattern's conversion, the embedded JSON object, or the
\* "unlimited" of a failure record.
ArgVal(f) == [src |-> "arg", val |-> <<f>>]
PatternVal(ints) == [src |-> "pattern", val |-> ints]
JsonVal == [src |-> "json", val |-> << >>]
UnlimitedVal == [src |-> "failure", val |-> << >>]

\* result[key] = value.
Put(d, key, value) ==
    [x \in DOMAIN d \cup {key} |-> IF x = key THEN value ELSE d[x]]

\* parse_pattern, collect_data.py lines 74-80: a conversion that raises
\* leaves result as it is.  (The first variant gives up the fields parsed
\* so far when a conversion raises.)
parse_patternAborting(d, field, key) ==
    IF ~field.match THEN d
    ELSE IF IntList(field.items).ok
    THEN Put(d, key, PatternVal(IntList(field.items).vals))
    ELSE [x \in {"file"} |-> d[x]]

parse_pattern(d, field, key) ==
    IF field.match /\ IntList(field.items).ok
    THEN Put(d, key, PatternVal(IntList(field.items).vals))
    ELSE d

\* collect_data.parse_output (collect_termination_data's is the same),
\* lines 62-92: result.update(stats), then the four patterns in turn.
parse_output_fields(text) ==
    LET start == [x \in {"file"} |-> ArgVal(text.inst)]
        merged == IF text.json = "object"
                  THEN [x \in DOMAIN start \cup text.keys |->
                          IF x \in text.keys THEN JsonVal ELSE start[x]]
                  ELSE start
        r1 == parse_pattern(merged, text.sums, "sums")
        r2 == parse_pattern(r1, text.pi, "pi")
        r3 == parse_pattern(r2, text.maxsum, "maxsum")
    IN  parse_pattern(r3, text.time, "time")

\* collect_data.run_command, lines 28-49.
batch_run_command(text) ==
    IF text.kind = "parsed" THEN parse_output_fields(text)
    ELSE [x \in {"file", "time"} |->
            IF x = "file" THEN ArgVal(text.inst) ELSE UnlimitedVal]
IdleText == ptext = NoText /\ pfields = << >> /\ pstats = None

\* No debug_outputs directory yet.
NoDebug == debugDir = FALSE /\ debug = [f \in Instances |-> NoRun]

IdleParse ==
    /\ plog = << >> /\ pline2 = [kind |-> "missing", val |-> 0]
    /\ precord = << >> /\ pdone = FALSE
    /\ IdleText

\* The corpus is either freshly generated (all of it pending) or has been
\* through collect_termination_data (all of it solved).
Init ==
    /\ phase \in {"collect", "features"}
    /\ prog = "none" /\ pc = "idle" /\ runs = 0 /\ aborted = FALSE
    /\ pending = (IF phase = "collect" THEN Instances ELSE {})
    /\ solved = (IF phase = "features" THEN Instances ELSE {})
    /\ collected = {}
    /\ store = << >> /\ tailOpen = FALSE /\ backup = {}
    /\ NoDebug
    /\ bstore = [st |-> "absent", recs |-> << >>]
    /\ tstore = << >>
    /\ Idle /\ plan = << >>
    /\ wrote = {} /\ wfailed = {}
    /\ IdleParse

\* --------------------------------------------------- collect_ml_features
Cur == instances[i]

\* The process ends (return, uncaught exception or kill): its locals go.
EndRun(uncaught) ==
    /\ pc' = "idle" /\ prog' = "none" /\ aborted' = uncaught
    /\ instances' = << >> /\ processed' = {} /\ i' = 0
    /\ retry_count' = 0 /\ invocations' = 0 /\ lastrun' = NoRun
    /\ result' = << >> /\ parsed' = NoResult /\ results' = << >>
    /\ saved' = "none"

\* The loop goes on to the next instance.
NextInstance ==
    /\ pc' = "loop" /\ i' = i + 1
    /\ retry_count' = 0 /\ invocations' = 0 /\ lastrun' = NoRun
    /\ result' = << >> /\ parsed' = NoResult /\ results' = << >>
    /\ saved' = "none"
    /\ UNCHANGED <<prog, aborted, instances, processed>>

\* main, lines 303-332: enumerate the solved directory, scan the store.
StartFeatures ==
    /\ pc = "idle" /\ phase = "features" /\ runs < MaxRuns
    /\ runs' = runs + 1 /\ aborted' = FALSE
    /\ debugDir' = TRUE
    /\ IF solved = {}
       THEN UNCHANGED <<prog, pc, locals>>
       ELSE /\ prog' = "features" /\ pc' = "loop"
            /\ instances' = SortedSeq(solved)
            /\ processed' = get_processed_files(store)
            /\ i' = 1
    /\ UNCHANGED <<phase, dirs, store, tailOpen, backup, debug, batchFiles,
                   cmd, plan, other, hist, parseVars>>

\* find_instances, lines 249-256: os.makedirs(debug_output_path) raises;
\* neither find_instances nor main catches it.
StartFeaturesRaises ==
    /\ pc = "idle" /\ phase = "features" /\ runs < MaxRuns
    /\ ~debugDir
    /\ runs' = runs + 1
    /\ EndRun(TRUE)
    /\ UNCHANGED <<phase, dirs, featFiles, batchFiles, plan, other, hist, parseVars>>

\* Line 333: the loop is exhausted; lines 387-389.
FinishRun ==
    /\ prog = "features" /\ pc = "loop" /\ i > Len(instances)
    /\ EndRun(FALSE)
    /\ UNCHANGED <<phase, runs, dirs, featFiles, batchFiles, plan, other, hist, parseVars>>

\* Lines 336-339.
SkipProcessed ==
    /\ prog = "features" /\ pc = "loop" /\ i <= Len(instances)
    /\ Cur \in processed
    /\ i' = i + 1
    /\ UNCHANGED <<phase, prog, pc, runs, aborted, dirs, featFiles, batchFiles,
                   instances, processed, cmd, plan, other, hist, parseVars>>

\* Lines 341-342: main calls run_command(instance).
BeginInstance ==
    /\ prog = "features" /\ pc = "loop" /\ i <= Len(instances)
    /\ Cur \notin processed
    /\ pc' = "run" /\ retry_count' = 0 /\ invocations' = 0 /\ lastrun' = NoRun
    /\ UNCHANGED <<phase, prog, runs, aborted, dirs, featFiles, batchFiles,
                   locals, result, parsed, results, saved, plan, other, hist, parseVars>>

\* run_command, lines 87-121: which outcomes lead to a retry, and whether
\* a retry is still allowed.
RetriedAlsoOnTimeout(kind) == kind \in TransientKinds \cup {"timeout"}

Retried(kind) == kind \in TransientKinds

RetryAllowedOnceMore(rc) == rc <= MAX_RETRIES

RetryAllowed(rc) == rc < MAX_RETRIES

NextRetrySkipsOne(rc) == rc + 2

NextRetry(rc) == rc + 1

PlanAllows(run) ==
    IF invocations >= Len(plan) THEN TRUE ELSE run = plan[invocations + 1]

\* parse_output, lines 136-145, the only place that writes the debug file:
\* open(.., 'w') and f.write(output) replace what the file held.  When the
\* step raises, the file is as it was (makedirs or open raised) or holds
\* the output cut short (the write raised).
DebugWrite(run) ==
    IF run.kind = "parsed"
    THEN debug' = [debug EXCEPT ![Cur] = run]
    ELSE IF run.kind = "debugfail"
    THEN \E d \in {debug[Cur], SolverRun("cut", 0)} :
            debug' = [debug EXCEPT ![Cur] = d]
    ELSE UNCHANGED debug

\* One solver invocation of run_command and what the call does with it:
\* parse, recurse with retry_count + 1, or return {file_name: []}.
Invoke ==
    /\ prog = "features" /\ pc = "run"
    /\ \E run \in SolverRuns :
         /\ PlanAllows(run)
         /\ invocations' = invocations + 1
         /\ lastrun' = run
         /\ DebugWrite(run)
         /\ IF run.kind = "parsed"
            THEN /\ result' = parse_output(run.out, get_num_partitions(InstanceLine2(Cur)))
                 /\ pc' = "check"
                 /\ UNCHANGED retry_count
            ELSE IF Retried(run.kind) /\ RetryAllowed(retry_count)
            THEN /\ retry_count' = NextRetry(retry_count)
                 /\ UNCHANGED <<pc, result>>
            ELSE /\ result' = << >>
                 /\ pc' = "check"
                 /\ UNCHANGED retry_count
    /\ UNCHANGED <<phase, prog, runs, aborted, dirs, store, tailOpen, backup,
                   debugDir, batchFiles, locals, parsed, results, saved, plan, other,
                   hist, parseVars>>

\* Lines 345-346: no features, nothing is written.
NoFeatures ==
    /\ prog = "features" /\ pc = "check" /\ result = << >>
    /\ pc' = "move" /\ saved' = "none"
    /\ UNCHANGED <<phase, prog, runs, aborted, dirs, featFiles, batchFiles,
                   locals, retry_count, invocations, lastrun, result, parsed,
                   results, plan, other, hist, parseVars>>

\* Lines 351-355: the record is appended as one line.
AppendOk ==
    /\ prog = "features" /\ pc = "check" /\ result # << >>
    /\ store' = AppendText(store, tailOpen, RecFrag(Cur, result))
    /\ tailOpen' = FALSE
    /\ pc' = "move" /\ saved' = "store"
    /\ wrote' = wrote \cup {Cur}
    /\ UNCHANGED <<phase, prog, runs, aborted, dirs, backup, debugFiles,
                   batchFiles, locals, retry_count, invocations, lastrun,
                   result, parsed, results, plan, other, wfailed, parseVars>>

\* Lines 356-363: the append raises, after no byte or after part of the
\* line reached the file; the record goes to backup_results/, whose write
\* is not guarded.
AppendRaises ==
    /\ prog = "features" /\ pc = "check" /\ result # << >>
    /\ wfailed' = wfailed \cup {Cur}
    /\ \E part \in BOOLEAN :
         IF part
         THEN /\ store' = AppendText(store, tailOpen, Frag("rec", Cur, result, FALSE))
              /\ tailOpen' = TRUE
         ELSE UNCHANGED <<store, tailOpen>>
    /\ \/ /\ backup' = {b \in backup : b.file # Cur} \cup {RecFrag(Cur, result)}
          /\ pc' = "move" /\ saved' = "backup"
          /\ UNCHANGED <<prog, aborted, locals, retry_count, invocations, lastrun,
                         result, parsed, results>>
       \/ /\ EndRun(TRUE)
          /\ UNCHANGED backup
    /\ UNCHANGED <<phase, runs, dirs, debugFiles, batchFiles, plan, other, wrote,
                   parseVars>>

\* The process is killed while the line is being written: a part of the
\* text, or all of it without the newline, is in the file.
AppendCut ==
    /\ prog = "features" /\ pc = "check" /\ result # << >>
    /\ \E w \in BOOLEAN :
         store' = AppendText(store, tailOpen, Frag("rec", Cur, result, w))
    /\ tailOpen' = TRUE
    /\ EndRun(FALSE)
    /\ UNCHANGED <<phase, runs, dirs, backup, debugFiles, batchFiles, plan, other,
                   hist, parseVars>>

\* Lines 365-385: the instance file goes to feature_collected.
MoveCollected ==
    /\ prog = "features" /\ pc = "move"
    /\ IF Cur \in solved
       THEN /\ solved' = solved \ {Cur}
            /\ collected' = collected \cup {Cur}
       ELSE UNCHANGED <<solved, collected>>
    /\ NextInstance
    /\ UNCHANGED <<phase, runs, pending, featFiles, batchFiles, plan, other, hist, parseVars>>

\* Process-level interruption of whichever script is running.
Interrupt ==
    /\ pc # "idle"
    /\ EndRun(FALSE)
    /\ UNCHANGED <<phase, runs, dirs, featFiles, batchFiles, plan, other, hist, parseVars>>

NextFeatures ==
    \/ StartFeatures \/ StartFeaturesRaises \/ FinishRun \/ SkipProcessed \/ BeginInstance
    \/ Invoke \/ NoFeatures \/ AppendOk \/ AppendRaises \/ AppendCut
    \/ MoveCollected

\* ------------------------- collect_data and collect_termination_data
BatchProgs == {"collect_data", "collect_termination_data"}

\* run_command of the batch scripts: a failure record for a non-zero exit,
\* a timeout or an exception, parse_output's record otherwise.
BatchResult(kind, f) ==
    [file |-> f, time |-> IF kind = "parsed" THEN "ms" ELSE "unlimited"]

HasRecord(recs, f) == \E n \in DOMAIN recs : recs[n].file = f
RecordCount(recs, f) == Cardinality({n \in DOMAIN recs : recs[n].file = f})

\* main up to the loop: enumerate instances/synthetic, create the output
\* file with an empty array when it does not exist.
StartCollect(p) ==
    /\ pc = "idle" /\ phase = "collect" /\ runs < MaxRuns
    /\ runs' = runs + 1 /\ aborted' = FALSE
    /\ prog' = p /\ pc' = "loop"
    /\ instances' = SortedSeq(pending) /\ i' = 1
    /\ bstore' = IF bstore.st = "absent"
                 THEN [st |-> "array", recs |-> << >>] ELSE bstore
    /\ UNCHANGED <<phase, dirs, featFiles, tstore, processed, cmd, plan, other, hist,
                   parseVars>>

StartCollectData == StartCollect("collect_data")

StartTerminationData == StartCollect("collect_termination_data")

BatchFinish ==
    /\ prog \in BatchProgs /\ pc = "loop" /\ i > Len(instances)
    /\ EndRun(FALSE)
    /\ UNCHANGED <<phase, runs, dirs, featFiles, batchFiles, plan, other, hist, parseVars>>

\* result = run_command(instance): every enumerated instance is run.
BatchInvoke ==
    /\ prog \in BatchProgs /\ pc = "loop" /\ i <= Len(instances)
    /\ \E kind \in BatchKinds :
         /\ parsed' = BatchResult(kind, Cur)
         /\ lastrun' = SolverRun(kind, 0)
    /\ invocations' = 1
    /\ pc' = "load"
    /\ UNCHANGED <<phase, prog, runs, aborted, dirs, featFiles, batchFiles,
                   locals, retry_count, result, results, saved, plan, other, hist,
                   parseVars>>

\* results = json.load(f); results.append(result).  A file that does not
\* hold a JSON array raises JSONDecodeError, which nothing catches.
BatchLoad ==
    /\ prog \in BatchProgs /\ pc = "load"
    /\ IF bstore.st = "array"
       THEN /\ results' = Append(bstore.recs, parsed)
            /\ pc' = "write"
            /\ UNCHANGED <<prog, aborted, locals, retry_count, invocations,
                           lastrun, result, parsed, saved>>
       ELSE EndRun(TRUE)
    /\ UNCHANGED <<phase, runs, dirs, featFiles, batchFiles, plan, other, hist, parseVars>>

\* open(output_path, 'w') truncates the file.
BatchOpenWrite ==
    /\ prog \in BatchProgs /\ pc = "write"
    /\ bstore' = [st |-> "corrupt", recs |-> << >>]
    /\ pc' = "dump"
    /\ UNCHANGED <<phase, prog, runs, aborted, dirs, featFiles, tstore, locals,
                   cmd, plan, other, hist, parseVars>>

\* open(output_path, 'w') raises: no handler, main ends.
BatchOpenRaises ==
    /\ prog \in BatchProgs /\ pc = "write"
    /\ wfailed' = wfailed \cup {Cur}
    /\ EndRun(TRUE)
    /\ UNCHANGED <<phase, runs, dirs, featFiles, batchFiles, plan, other, wrote, parseVars>>

\* json.dump(results, f, indent=2) and the close of the file.
BatchDump ==
    /\ prog \in BatchProgs /\ pc = "dump"
    /\ bstore' = [st |-> "array", recs |-> results]
    /\ wrote' = wrote \cup {Cur}
    /\ IF prog = "collect_termination_data"
       THEN /\ pc' = "move"
            /\ UNCHANGED <<prog, aborted, locals, cmd>>
       ELSE NextInstance
    /\ UNCHANGED <<phase, runs, dirs, featFiles, tstore, plan, other, wfailed, parseVars>>

\* The dump raises part way: no handler, the file keeps what was written.
BatchDumpRaises ==
    /\ prog \in BatchProgs /\ pc = "dump"
    /\ wfailed' = wfailed \cup {Cur}
    /\ EndRun(TRUE)
    /\ UNCHANGED <<phase, runs, dirs, featFiles, batchFiles, plan, other, wrote, parseVars>>

\* collect_termination_data, lines 160-173: shutil.move, unguarded.
BatchMove ==
    /\ prog = "collect_termination_data" /\ pc = "move"
    /\ IF Cur \in pending
       THEN /\ pending' = pending \ {Cur}
            /\ solved' = solved \cup {Cur}
            /\ NextInstance
       ELSE /\ EndRun(TRUE)
            /\ UNCHANGED <<pending, solved>>
    /\ UNCHANGED <<phase, runs, collected, featFiles, batchFiles, plan, other, hist, parseVars>>

NextBatch ==
    \/ StartCollectData \/ StartTerminationData \/ BatchFinish \/ BatchInvoke
    \/ BatchLoad \/ BatchOpenWrite \/ BatchOpenRaises \/ BatchDump
    \/ BatchDumpRaises \/ BatchMove

\* --------------------------------------------- extract_termination_stats
\* process_jsonl_file, lines 40-63: the filenames, in line order, of the
\* records whose last log entry is a TERMINATE event.
RECURSIVE TerminateFiles(_, _, _)
TerminateFiles(lines, n, acc) ==
    IF n > Len(lines) THEN acc
    ELSE LET d == JsonLoads(lines[n])
             feat == lines[n][1].feat
         IN  IF d = "error" THEN TerminateFiles(lines, n + 1, acc)
             ELSE IF d = "object"
                  THEN TerminateFiles(lines, n + 1,
                         IF feat # << >> /\ feat[Len(feat)].event = "TERMINATE"
                         THEN Append(acc, lines[n][1].file) ELSE acc)
                  ELSE acc

\* (The first variant returns the file of every record line.)
process_jsonl_fileAnyLastEvent(lines) ==
    [n \in 1..Cardinality(ValidLines(lines)) |->
        lines[SortedSeq(ValidLines(lines))[n]][1].file]

process_jsonl_file(lines) == TerminateFiles(lines, 1, << >>)

\* main, lines 146-163.
StartStats ==
    /\ pc = "idle" /\ phase = "features" /\ runs < MaxRuns
    /\ runs' = runs + 1 /\ aborted' = FALSE
    /\ IF process_jsonl_file(store) = << >>
       THEN UNCHANGED <<prog, pc, locals>>
       ELSE /\ prog' = "termination_stats" /\ pc' = "loop"
            /\ instances' = process_jsonl_file(store)
            /\ i' = 1
            /\ UNCHANGED processed
    /\ UNCHANGED <<phase, dirs, featFiles, batchFiles, cmd, plan, other, hist, parseVars>>

StatsFinish ==
    /\ prog = "termination_stats" /\ pc = "loop" /\ i > Len(instances)
    /\ EndRun(FALSE)
    /\ UNCHANGED <<phase, runs, dirs, featFiles, batchFiles, plan, other, hist, parseVars>>

\* stats = run_numpart_solver(filename): None unless the run exits with 0
\* in time and parse_solver_output finds the sums.
StatsInvoke ==
    /\ prog = "termination_stats" /\ pc = "loop" /\ i <= Len(instances)
    /\ \E kind \in StatsKinds : lastrun' = SolverRun(kind, 0)
    /\ invocations' = 1
    /\ pc' = "check"
    /\ UNCHANGED <<phase, prog, runs, aborted, dirs, featFiles, batchFiles,
                   locals, retry_count, result, parsed, results, saved, plan, other,
                   hist, parseVars>>

\* Lines 169-178: one line is appended to termination_stats.jsonl.
StatsAppend ==
    /\ prog = "termination_stats" /\ pc = "check" /\ lastrun.kind = "stats"
    /\ tstore' = Append(tstore, Cur)
    /\ NextInstance
    /\ UNCHANGED <<phase, runs, dirs, featFiles, bstore, plan, other, hist, parseVars>>

\* stats is None: nothing is written for the instance.
StatsSkip ==
    /\ prog = "termination_stats" /\ pc = "check" /\ lastrun.kind # "stats"
    /\ NextInstance
    /\ UNCHANGED <<phase, runs, dirs, featFiles, batchFiles, plan, other, hist, parseVars>>

NextStats ==
    StartStats \/ StatsFinish \/ StatsInvoke \/ StatsAppend \/ StatsSkip

Next == NextFeatures \/ NextBatch \/ NextStats \/ Interrupt

Spec == Init /\ [][Next]_vars

\* The three pipelines with process kills at any point (a kill during the
\* append included) and every solver outcome, but no exception from the
\* file system.
NextCrash ==
    \/ StartCollectData \/ StartTerminationData \/ BatchFinish \/ BatchInvoke
    \/ BatchLoad \/ BatchOpenWrite \/ BatchDump \/ BatchMove
    \/ StartFeatures \/ FinishRun \/ SkipProcessed \/ BeginInstance \/ Invoke
    \/ NoFeatures \/ AppendOk \/ AppendCut \/ MoveCollected
    \/ StartStats \/ StatsFinish \/ StatsInvoke \/ StatsAppend \/ StatsSkip
    \/ Interrupt

SpecCrash == Init /\ [][NextCrash]_vars

\* ------------------------------------------------ run_command under a plan
\* The feature pipeline on a solved corpus of one instance, with the
\* outcomes of the successive solver invocations of a run_command call
\* fixed in advance.
Plans == [1..(MAX_RETRIES + 1) -> SolverRuns]

InitRun ==
    /\ phase = "features"
    /\ prog = "none" /\ pc = "idle" /\ runs = 0 /\ aborted = FALSE
    /\ pending = {} /\ solved = {1} /\ collected = {}
    /\ store = << >> /\ tailOpen = FALSE /\ backup = {}
    /\ NoDebug
    /\ bstore = [st |-> "absent", recs |-> << >>]
    /\ tstore = << >>
    /\ Idle /\ plan \in Plans
    /\ wrote = {} /\ wfailed = {}
    /\ IdleParse

\* One run after the other, none killed: the instance is run again only
\* after a run that ended in the unguarded backup write.
NextRun ==
    \/ StartFeatures \/ FinishRun \/ BeginInstance \/ Invoke \/ NoFeatures
    \/ AppendOk \/ AppendRaises \/ MoveCollected

SpecRun == InitRun /\ [][NextRun]_vars

\* --------------------------------- get_processed_files on any store content
\* The lines an existing ml_features.jsonl may hold: a record of an
\* instance, a record cut short, a JSON value that is no object, text that
\* is no JSON, a blank line.
SomeFeat == FeatureRecord(PipeLogs[1], DefaultK)
ScanLineSet ==
    {<<RecFrag(f, SomeFeat)>> : f \in Instances}
      \cup { <<Frag("rec", 1, SomeFeat, FALSE)>>,
             <<Frag("nonobj", 0, << >>, TRUE)>>,
             <<Frag("junk", 0, << >>, TRUE)>>,
             << >> }
ScanStores == UNION {[1..n -> ScanLineSet] : n \in 0..MaxLines}

InitScan ==
    /\ phase = "features"
    /\ prog = "none" /\ pc = "idle" /\ runs = 0 /\ aborted = FALSE
    /\ pending = {} /\ solved = Instances /\ collected = {}
    /\ store \in ScanStores /\ tailOpen = FALSE /\ backup = {}
    /\ NoDebug
    /\ bstore = [st |-> "absent", recs |-> << >>]
    /\ tstore = << >>
    /\ Idle /\ plan = << >>
    /\ wrote = {} /\ wfailed = {}
    /\ IdleParse

\* The start of main and its loop up to the call of run_command.
NextScan ==
    StartFeatures \/ FinishRun \/ SkipProcessed \/ BeginInstance \/ Interrupt

SpecScan == InitScan /\ [][NextScan]_vars

\* --------------------------------------- the extractor on any log and k
Logs == UNION {[1..n -> EventPool] : n \in 0..MaxLogLen}

InitParse ==
    /\ phase = "features"
    /\ prog = "none" /\ pc = "idle" /\ runs = 0 /\ aborted = FALSE
    /\ pending = {} /\ solved = Instances /\ collected = {}
    /\ store = << >> /\ tailOpen = FALSE /\ backup = {}
    /\ NoDebug
    /\ bstore = [st |-> "absent", recs |-> << >>]
    /\ tstore = << >>
    /\ Idle /\ plan = << >>
    /\ wrote = {} /\ wfailed = {}
    /\ plog \in Logs /\ pline2 \in Line2Values
    /\ precord = << >> /\ pdone = FALSE
    /\ IdleText

\* run_command lines 72 and 112: k is read from the instance file and the
\* decoded log goes through parse_output.
Extract ==
    /\ ~pdone
    /\ precord' = FeatureRecord(plog, get_num_partitions(pline2))
    /\ pdone' = TRUE
    /\ UNCHANGED <<phase, prog, pc, runs, aborted, dirs, featFiles, batchFiles,
                   locals, cmd, plan, other, hist, plog, pline2, textVars>>

NextParse == Extract

SpecParse == InitParse /\ [][NextParse]_vars

\* ------------------------------- parse_solver_output on any Sums text
InitStats ==
    /\ phase = "features"
    /\ prog = "none" /\ pc = "idle" /\ runs = 0 /\ aborted = FALSE
    /\ pending = {} /\ solved = Instances /\ collected = {}
    /\ store = << >> /\ tailOpen = FALSE /\ backup = {}
    /\ NoDebug
    /\ bstore = [st |-> "absent", recs |-> << >>]
    /\ tstore = << >>
    /\ Idle /\ plan = << >>
    /\ wrote = {} /\ wfailed = {}
    /\ plog = << >> /\ pline2 = [kind |-> "missing", val |-> 0]
    /\ precord = << >> /\ pdone = FALSE
    /\ \E f \in ArrayTexts : ptext = [NoText EXCEPT !.sums = f]
    /\ pfields = << >> /\ pstats = None

\* run_numpart_solver line 94: the output goes through parse_solver_output.
ParseSums ==
    /\ ~pdone
    /\ pstats' = parse_solver_output(ptext.sums)
    /\ pdone' = TRUE
    /\ UNCHANGED <<phase, prog, pc, runs, aborted, dirs, featFiles, batchFiles,
                   locals, cmd, plan, other, hist, plog, pline2, precord, ptext, pfields>>

NextStatsParse == ParseSums

SpecStats == InitStats /\ [][NextStatsParse]_vars

\* --------------------------- the batch run_command on any solver output
\* Array texts of up to MaxItems items, a scalar that matches (\d+) or
\* does not, and the embedded JSON absent, invalid or an object whose keys
\* may be those of the ParsedResult.
FieldTexts ==
    {NoMatch} \cup {Matched(t) :
        t \in UNION {[1..n -> {IntItem(3), EmptyItem}] : n \in 1..MaxItems}}
ScalarTexts == {NoMatch, Matched(<<IntItem(12)>>)}
JsonKeySets == SUBSET {"file", "sums", "nodes"}
BatchText(f, j, ks, a, b, c, d) ==
    [inst |-> f, kind |-> "parsed", json |-> j, keys |-> ks,
     sums |-> a, pi |-> b, maxsum |-> c, time |-> d]

InitFields ==
    /\ phase = "collect"
    /\ prog = "none" /\ pc = "idle" /\ runs = 0 /\ aborted = FALSE
    /\ pending = Instances /\ solved = {} /\ collected = {}
    /\ store = << >> /\ tailOpen = FALSE /\ backup = {}
    /\ NoDebug
    /\ bstore = [st |-> "absent", recs |-> << >>]
    /\ tstore = << >>
    /\ Idle /\ plan = << >>
    /\ wrote = {} /\ wfailed = {}
    /\ plog = << >> /\ pline2 = [kind |-> "missing", val |-> 0]
    /\ precord = << >> /\ pdone = FALSE
    /\ \/ \E f \in Instances, k \in BatchKinds \ {"parsed"} :
            ptext = [NoText EXCEPT !.inst = f, !.kind = k]
       \/ \E f \in Instances, ks \in JsonKeySets, a \in FieldTexts,
              b \in FieldTexts, c \in ScalarTexts, d \in ScalarTexts :
            ptext = BatchText(f, "object", ks, a, b, c, d)
       \/ \E f \in Instances, j \in {"nomatch", "invalid"}, a \in FieldTexts,
              b \in FieldTexts, c \in ScalarTexts, d \in ScalarTexts :
            ptext = BatchText(f, j, {}, a, b, c, d)
    /\ pfields = << >> /\ pstats = None

\* main line 137: result = run_command(instance).
RunBatchCommand ==
    /\ ~pdone
    /\ pfields' = batch_run_command(ptext)
    /\ pdone' = TRUE
    /\ UNCHANGED <<phase, prog, pc, runs, aborted, dirs, featFiles, batchFiles,
                   locals, cmd, plan, other, hist, plog, pline2, precord, ptext, pstats>>

NextFields == RunBatchCommand

SpecFields == InitFields /\ [][NextFields]_vars

\* ------------------------------------- the moves between stage directories
\* An instance file that main has enumerated leaves its directory before
\* main comes to move it (removed, or moved on by another process): what
\* os.path.exists(source_path) of collect_ml_features line 379 tests for.
SourceDir == IF prog = "features" THEN solved ELSE pending

SourceVanishes ==
    /\ prog \in {"features", "collect_termination_data"} /\ pc # "idle"
    /\ \E f \in SourceDir :
         IF prog = "features"
         THEN solved' = solved \ {f} /\ UNCHANGED <<pending, collected>>
         ELSE pending' = pending \ {f} /\ UNCHANGED <<solved, collected>>
    /\ UNCHANGED <<phase, prog, pc, runs, aborted, featFiles, batchFiles,
                   locals, cmd, plan, other, hist, parseVars>>

NextMove ==
    \/ StartTerminationData \/ BatchFinish \/ BatchInvoke \/ BatchLoad
    \/ BatchOpenWrite \/ BatchDump \/ BatchMove
    \/ StartFeatures \/ FinishRun \/ BeginInstance \/ Invoke \/ NoFeatures
    \/ AppendOk \/ MoveCollected
    \/ SourceVanishes

SpecMove == Init /\ [][NextMove]_vars

\* ------------------------------------------ a second run, at the same time
\* Neither main takes a lock, writes a pid file or looks for another run:
\* a second process started while the first is in its loop runs the same
\* main on the same directories and files.  One iteration of its loop is
\* one step here.
OtherStart ==
    /\ prog \in {"features", "collect_termination_data"} /\ pc # "idle"
    /\ other.pc = "idle"
    /\ other' = [pc |-> "loop", prog |-> prog,
                 instances |-> SortedSeq(SourceDir),
                 processed |-> IF prog = "features"
                               THEN get_processed_files(store) ELSE {},
                 i |-> 1, invoked |-> 0, wrote |-> 0, moved |-> 0]
    /\ UNCHANGED <<phase, prog, pc, runs, aborted, dirs, featFiles, batchFiles,
                   locals, cmd, plan, hist, parseVars>>

\* collect_ml_features.main, lines 333-385, in the second process.
OtherFeatures ==
    /\ other.pc = "loop" /\ other.prog = "features"
    /\ other.i <= Len(other.instances)
    /\ LET f == other.instances[other.i] IN
         IF f \in other.processed
         THEN /\ other' = [other EXCEPT !.i = @ + 1]
              /\ UNCHANGED <<store, tailOpen, debug, solved, collected>>
         ELSE \E run \in {r \in SolverRuns : r.kind # "debugfail"} :
                LET feat == IF run.kind = "parsed"
                            THEN parse_output(run.out, get_num_partitions(InstanceLine2(f)))
                            ELSE << >>
                IN /\ debug' = IF run.kind = "parsed"
                                THEN [debug EXCEPT ![f] = run] ELSE debug
                   /\ IF feat # << >>
                      THEN /\ store' = AppendText(store, tailOpen, RecFrag(f, feat))
                           /\ tailOpen' = FALSE
                      ELSE UNCHANGED <<store, tailOpen>>
                   /\ IF f \in solved
                      THEN /\ solved' = solved \ {f}
                           /\ collected' = collected \cup {f}
                      ELSE UNCHANGED <<solved, collected>>
                   /\ other' = [other EXCEPT
                          !.i = @ + 1,
                          !.invoked = @ + 1,
                          !.wrote = @ + (IF feat # << >> THEN 1 ELSE 0),
                          !.moved = @ + (IF f \in solved THEN 1 ELSE 0)]
    /\ UNCHANGED <<phase, prog, pc, runs, aborted, pending, backup, debugDir,
                   batchFiles, locals, cmd, plan, hist, parseVars>>

\* collect_termination_data.main, lines 135-173, in the second process:
\* json.load raises on a file the first process has truncated, shutil.move
\* raises on a file the first process has moved.
OtherTermination ==
    /\ other.pc = "loop" /\ other.prog = "collect_termination_data"
    /\ other.i <= Len(other.instances)
    /\ \E kind \in BatchKinds :
         LET f == other.instances[other.i] IN
         IF bstore.st # "array"
         THEN /\ other' = [other EXCEPT !.pc = "done", !.invoked = @ + 1]
              /\ UNCHANGED <<bstore, pending, solved>>
         ELSE /\ bstore' = [st |-> "array",
                            recs |-> Append(bstore.recs, BatchResult(kind, f))]
              /\ IF f \in pending
                 THEN /\ pending' = pending \ {f}
                      /\ solved' = solved \cup {f}
                      /\ other' = [other EXCEPT !.i = @ + 1, !.invoked = @ + 1,
                                                !.wrote = @ + 1, !.moved = @ + 1]
                 ELSE /\ other' = [other EXCEPT !.pc = "done", !.invoked = @ + 1,
                                                !.wrote = @ + 1]
                      /\ UNCHANGED <<pending, solved>>
    /\ UNCHANGED <<phase, prog, pc, runs, aborted, collected, featFiles, tstore,
                   locals, cmd, plan, hist, parseVars>>

\* The second process's loop is exhausted.
OtherFinish ==
    /\ other.pc = "loop" /\ other.i > Len(other.instances)
    /\ other' = [other EXCEPT !.pc = "done"]
    /\ UNCHANGED <<phase, prog, pc, runs, aborted, dirs, featFiles, batchFiles,
                   locals, cmd, plan, hist, parseVars>>

NextTwo ==
    \/ StartTerminationData \/ BatchFinish \/ BatchInvoke \/ BatchLoad
    \/ BatchOpenWrite \/ BatchDump \/ BatchMove
    \/ StartFeatures \/ FinishRun \/ BeginInstance \/ Invoke \/ NoFeatures
    \/ AppendOk \/ MoveCollected
    \/ OtherStart \/ OtherFeatures \/ OtherTermination \/ OtherFinish

SpecTwo == Init /\ [][NextTwo]_vars

\* ------------------------------------------------- a run left to itself
\* The feature pipeline with nothing killing it.  The store is empty, or
\* holds the record of the first instance from a run that was killed
\* between the append and the move.  The process keeps running: a step of
\* the loop that can be taken is taken, every solver invocation returns or
\* times out (subprocess.run with timeout=SUBPROCESS_TIMEOUT).  Starting a
\* run is up to the user.
InitLive ==
    /\ phase = "features"
    /\ prog = "none" /\ pc = "idle" /\ runs = 0 /\ aborted = FALSE
    /\ pending = {} /\ solved = Instances /\ collected = {}
    /\ store \in {<< >>, << <<RecFrag(1, SomeFeat)>> >>}
    /\ tailOpen = FALSE /\ backup = {}
    /\ NoDebug
    /\ bstore = [st |-> "absent", recs |-> << >>]
    /\ tstore = << >>
    /\ Idle /\ plan = << >>
    /\ wrote = {} /\ wfailed = {}
    /\ IdleParse

RunStep ==
    \/ FinishRun \/ SkipProcessed \/ BeginInstance \/ Invoke \/ NoFeatures
    \/ AppendOk \/ AppendRaises \/ MoveCollected

NextLive == StartFeatures \/ RunStep

SpecLive == InitLive /\ [][NextLive]_vars /\ WF_vars(RunStep)

\* ================================================================ claims
CurK == get_num_partitions(InstanceLine2(Cur))
InBackup(f) == \E b \in backup : b.file = f
LastFragment(lines) == lines[Len(lines)][Len(lines[Len(lines)])]

\* C1: after any sequence of complete and interrupted runs of the feature
\* pipeline, ml_features.jsonl holds at most one valid record per instance
\* and exactly one for every instance whose record was appended without the
\* write failing.
C1_ExactlyOneRecord ==
    (phase = "features" /\ pc = "idle") =>
        /\ \A f \in Instances : Cardinality(RecordsOf(store, f)) <= 1
        /\ \A f \in wrote : Cardinality(RecordsOf(store, f)) = 1

\* C2: a run over the store left by an earlier run processes only instances
\* without a record in the store, and no store ever holds two records of
\* one instance (solver_output.json, termination_stats.jsonl).
C2_RerunAddsNoSecondRecord ==
    /\ \A f \in Instances : RecordCount(bstore.recs, f) <= 1
    /\ \A f \in Instances : Cardinality({n \in DOMAIN tstore : tstore[n] = f}) <= 1
    /\ (prog \in BatchProgs /\ pc = "load") => ~HasRecord(bstore.recs, Cur)
    /\ (prog = "termination_stats" /\ pc = "check") => Cur \notin Range(tstore)

\* C3: when a batch run has ended, at whatever point, solver_output.json
\* holds the record of every instance whose rewrite had completed.
C3_CompletedRecordsDurable ==
    (phase = "collect" /\ pc = "idle") =>
        \A f \in wrote : bstore.st = "array" /\ HasRecord(bstore.recs, f)

\* C4: every result whose write to the primary store raised is in the
\* backup location (or in the primary store after all), in the streaming
\* and in the batch pipelines.
C4_WriteFailureBackedUp ==
    \A f \in wfailed :
        \/ InBackup(f)
        \/ (phase = "features" /\ RecordsOf(store, f) # {})
        \/ (phase = "collect" /\ HasRecord(bstore.recs, f))

\* C5: one run_command call retries at most MAX_RETRIES times, so makes at
\* most MAX_RETRIES + 1 solver invocations, each retry being one more
\* invocation; after the last allowed attempt it has returned, and when no
\* attempt was parsed it returned the empty feature list.
C5_RetryCeiling ==
    /\ retry_count <= MAX_RETRIES
    /\ invocations <= MAX_RETRIES + 1
    /\ (prog = "features" /\ pc = "run") => invocations = retry_count
    /\ (prog = "features" /\ invocations = MAX_RETRIES + 1) => pc # "run"
    /\ (prog = "features" /\ pc = "check" /\ lastrun.kind # "parsed") => result = << >>

C5_CeilingReached ==
    /\ prog = "features" /\ pc = "check"
    /\ invocations = MAX_RETRIES + 1 /\ retry_count = MAX_RETRIES
    /\ lastrun.kind \in TransientKinds /\ result = << >>

\* C6: once an invocation has timed out, no further solver invocation is
\* made for that instance, and what the call returns is the empty feature
\* list (feature pipeline), the failure record (batch scripts) or nothing
\* to write (statistics pass).
C6_TimeoutNotRetried ==
    /\ [](lastrun.kind = "timeout" =>
            /\ pc # "run"
            /\ prog = "features" => result = << >>
            /\ (prog \in BatchProgs) => parsed.time = "unlimited")
    /\ [][lastrun.kind = "timeout" => invocations' <= invocations]_vars
    /\ [][(lastrun.kind = "timeout" /\ prog = "termination_stats")
             => tstore' = tstore]_vars

C6_TimeoutOnRetry ==
    /\ prog = "features" /\ pc = "check"
    /\ lastrun.kind = "timeout" /\ retry_count > 0 /\ result = << >>

\* C7 as stated: an instance whose invocation times out twice and then
\* returns well-formed output on attempt 3 is retried exactly twice and the
\* result of the third attempt is the one persisted.
C7_TimeoutsThenOutput ==
    ( /\ prog = "features" /\ pc \in {"check", "move"}
      /\ plan[1].kind = "timeout" /\ plan[2].kind = "timeout"
      /\ plan[3].kind = "parsed" /\ parse_output(plan[3].out, CurK) # << >> )
    => /\ invocations = 3 /\ retry_count = 2
       /\ result = parse_output(plan[3].out, CurK)
       /\ pc = "move" => saved # "none"

\* C7 amended: an instance whose invocation fails transiently twice (an
\* exception, empty output, output without the markers, a non-zero exit
\* code) and then returns well-formed output on attempt 3 is retried
\* exactly twice, and the record main writes, to the store or to the
\* backup location, is the result of the third attempt.
C7_TransientsThenOutput ==
    ( /\ prog = "features" /\ pc \in {"check", "move"}
      /\ plan[1].kind \in TransientKinds /\ plan[2].kind \in TransientKinds
      /\ plan[3].kind = "parsed" /\ parse_output(plan[3].out, CurK) # << >> )
    => /\ invocations = 3 /\ retry_count = 2
       /\ result = parse_output(plan[3].out, CurK)
       /\ pc = "move" => saved # "none"
       /\ saved = "store" =>
            LastFragment(store) = RecFrag(Cur, parse_output(plan[3].out, CurK))
       /\ saved = "backup" =>
            RecFrag(Cur, parse_output(plan[3].out, CurK)) \in backup

C7_ThirdAttemptStored ==
    /\ prog = "features" /\ pc = "move" /\ saved = "store"
    /\ plan[1].kind \in TransientKinds /\ plan[2].kind \in TransientKinds
    /\ lastrun.kind = "parsed" /\ invocations = 3 /\ retry_count = 2
    /\ LastFragment(store) = RecFrag(Cur, result)

\* C8: whatever the store holds, processed_files is the set of the
\* filenames of all its valid record lines, and the run calls run_command
\* only for instances outside that set.
C8_ScanFindsEveryValidLine ==
    (prog = "features") =>
        /\ processed = ValidKeys(store)
        /\ pc = "run" => Cur \notin ValidKeys(store)

\* C9: the log items returned by parse_output hold no two equal entries.
C9_NoDuplicateEntries ==
    pdone => \A a, b \in DOMAIN precord : a # b => precord[a] # precord[b]

\* C10: the log items returned by parse_output are at most k + 2, k being
\* the partition count read from the instance file (or the fallback).
C10_AtMostKPlusTwo ==
    pdone => Len(precord) <= get_num_partitions(pline2) + 2

HasEvent(items, ev) == \E n \in DOMAIN items : items[n].event = ev

\* C11: the returned log items hold an entry with event TIMEOUT exactly
\* when the full log holds one, and an entry with event TERMINATE exactly
\* when the full log holds one, wherever in the log the sentinel stands.
C11_SentinelsFromWholeLog ==
    pdone => /\ HasEvent(precord, "TIMEOUT") <=> HasEvent(plog, "TIMEOUT")
             /\ HasEvent(precord, "TERMINATE") <=> HasEvent(plog, "TERMINATE")

C11_SentinelAfterKth ==
    /\ pdone /\ get_num_partitions(pline2) >= 1
    /\ Len(plog) > get_num_partitions(pline2)
    /\ \A n \in 1..get_num_partitions(pline2) : plog[n].event = "STEP"
    /\ HasEvent(plog, "TIMEOUT") /\ HasEvent(plog, "TERMINATE")
    /\ HasEvent(precord, "TIMEOUT") /\ HasEvent(precord, "TERMINATE")

\* C12: the returned log items are the first min(k, |log|) log entries in
\* their order, then the TIMEOUT event when the log has one that is not
\* among them, then the TERMINATE event when the log has one that is not
\* among them.
C12_PrefixThenSentinels ==
    LET prefix == SubSeq(plog, 1, Min(get_num_partitions(pline2), Len(plog)))
        tail(ev) == IF HasEvent(plog, ev) /\ ~HasEvent(prefix, ev)
                    THEN <<LastWithEvent(plog, ev)>> ELSE << >>
    IN  pdone => precord = prefix \o tail("TIMEOUT") \o tail("TERMINATE")

\* C13: when main comes to move an instance file that is no longer in its
\* source directory, the run does not end there: the loop goes on to the
\* next instance, in collect_termination_data and in collect_ml_features.
C13_MissingSourceNonFatal ==
    [][(pc = "move" /\ pc' # "move" /\ Cur \notin SourceDir)
         => (~aborted' /\ pc' = "loop" /\ i' = i + 1 /\ instances' = instances)]_vars

\* C14: after every solver invocation of the feature pipeline that returned
\* output (blank, without the markers, with a non-zero exit code, or passed
\* to the parser), debug_outputs/<file>.log holds that output.
C14_EveryOutputInDebugFile ==
    (prog = "features" /\ lastrun.kind \in {"empty", "nomarkers", "nonzero", "parsed"})
        => debug[Cur] = lastrun

\* C15: a failure of the debug persistence never ends a run of the feature
\* pipeline: when the write in parse_output raises, run_command goes on
\* (retry or empty result) and main goes on with the instance; when the
\* directory is missing at the start of a run, the run is not ended by
\* its creation.
C15_DebugFailureContained ==
    /\ [][(prog = "features" /\ pc = "run" /\ invocations' = invocations + 1
             /\ lastrun'.kind = "debugfail")
            => (prog' = "features" /\ ~aborted' /\ pc' \in {"run", "check"})]_vars
    /\ [][(pc = "idle" /\ phase = "features" /\ ~debugDir /\ runs' = runs + 1)
            => ~aborted']_vars

\* The files whose record line in ml_features.jsonl ends with TERMINATE.
TerminateKeys(lines) ==
    {lines[n][1].file : n \in {m \in ValidLines(lines) :
        /\ lines[m][1].feat # << >>
        /\ lines[m][1].feat[Len(lines[m][1].feat)].event = "TERMINATE"}}

\* C16: the statistics pass re-invokes the solver for exactly the files
\* whose record in ml_features.jsonl ends with TERMINATE, and appends a
\* line for the file exactly when the re-invocation exited with code 0 in
\* time with a parsable Sums line; nothing else writes to
\* termination_stats.jsonl.
C16_StatsOnlyForTerminated ==
    /\ [](prog = "termination_stats" => Range(instances) = TerminateKeys(store))
    /\ [][(prog = "termination_stats" /\ pc = "check" /\ pc' = "loop")
            => IF lastrun.kind = "stats"
               THEN tstore' = Append(tstore, Cur) ELSE tstore' = tstore]_vars
    /\ [][tstore' # tstore
            => (prog = "termination_stats" /\ pc = "check"
                /\ Cur \in TerminateKeys(store))]_vars

C16_OneAppendedOneSkipped ==
    /\ prog = "termination_stats" /\ pc = "loop" /\ i > Len(instances)
    /\ Len(instances) = 1 /\ tstore = instances
    /\ ValidKeys(store) \ TerminateKeys(store) # {}

\* C17: for every non-empty integer sums sequence parse_solver_output
\* reports the maximum, the minimum and the sample variance (the sum of
\* the squared deviations from the mean over n - 1; 0 for one value):
\* [10, 10, 10] gives 10, 10, 0 and [4, 10] gives 10, 4, 18.
C17_MaxMinSampleVariance ==
    (pdone /\ pstats # None) =>
        LET sums == pstats.sums
            n == Len(sums)
            total == SeqSum(sums)
            \* sum((x - total/n)^2) = sqdev / n^2
            sqdev == SeqSum([m \in DOMAIN sums |->
                               (n * sums[m] - total) * (n * sums[m] - total)])
            v == pstats.subset_sum_variance
        IN  /\ sums = IntList(ptext.sums.items).vals
            /\ pstats.subset_sum_max \in Range(sums)
            /\ \A m \in DOMAIN sums : sums[m] <= pstats.subset_sum_max
            /\ pstats.subset_sum_min \in Range(sums)
            /\ \A m \in DOMAIN sums : sums[m] >= pstats.subset_sum_min
            /\ n = 1 => v.num = 0
            /\ n >= 2 => v.num * (n * n * (n - 1)) = sqdev * v.den
            /\ v.den > 0
            /\ sums = <<10, 10, 10>> =>
                 (pstats.subset_sum_max = 10 /\ pstats.subset_sum_min = 10 /\ v.num = 0)
            /\ sums = <<4, 10>> =>
                 (pstats.subset_sum_max = 10 /\ pstats.subset_sum_min = 4
                  /\ v.num = 18 * v.den)

C17_FourAndTen ==
    /\ pdone /\ ptext.sums = Matched(<<IntItem(4), IntItem(10)>>)
    /\ pstats.sums = <<4, 10>> /\ pstats.subset_sum_max = 10
    /\ pstats.subset_sum_min = 4
    /\ pstats.subset_sum_variance.num = 18 * pstats.subset_sum_variance.den

\* C18: `Sums: [3, 5, 12]` parses to [3, 5, 12], and array text with a
\* trailing comma, `Sums: [3, 5,]`, parses to [3, 5].
C18_TrailingCommaRepaired ==
    pdone =>
        /\ ptext.sums = Matched(<<IntItem(3), IntItem(5), IntItem(12)>>)
              => pstats.sums = <<3, 5, 12>>
        /\ ptext.sums = Matched(<<IntItem(3), IntItem(5), EmptyItem>>)
              => pstats.sums = <<3, 5>>

\* A field's own pattern matches and its own conversion succeeds.
FieldParses(field) == field.match /\ IntList(field.items).ok
FieldOf(key) ==
    IF key = "sums" THEN ptext.sums ELSE IF key = "pi" THEN ptext.pi
    ELSE IF key = "maxsum" THEN ptext.maxsum ELSE ptext.time

\* C19 as stated: each of sums, pi, maxsum and time is in the ParsedResult
\* exactly when its own pattern matches and its own conversion succeeds.
C19_FieldIffOwnPattern ==
    (pdone /\ ptext.kind = "parsed") =>
        \A key \in {"sums", "pi", "maxsum", "time"} :
            key \in DOMAIN pfields <=> FieldParses(FieldOf(key))

\* C19 amended: each of sums, pi, maxsum and time holds its own pattern's
\* conversion exactly when that pattern matches and that conversion
\* succeeds, whatever happens to the sibling fields and to the embedded
\* JSON; otherwise the field is absent unless the embedded JSON object
\* decoded and has a key of that name, whose value it then keeps.
C19_FieldFromOwnPatternOrJson ==
    (pdone /\ ptext.kind = "parsed") =>
        /\ "file" \in DOMAIN pfields
        /\ \A key \in {"sums", "pi", "maxsum", "time"} :
             IF FieldParses(FieldOf(key))
             THEN /\ key \in DOMAIN pfields
                  /\ pfields[key] = PatternVal(IntList(FieldOf(key).items).vals)
             ELSE IF ptext.json = "object" /\ key \in ptext.keys
             THEN key \in DOMAIN pfields /\ pfields[key] = JsonVal
             ELSE key \notin DOMAIN pfields

C19_SiblingsSurviveFailures ==
    /\ pdone /\ ptext.kind = "parsed" /\ ptext.json = "invalid"
    /\ FieldParses(ptext.sums)
    /\ ptext.pi.match /\ ~FieldParses(ptext.pi)
    /\ FieldParses(ptext.time)
    /\ DOMAIN pfields = {"file", "sums", "time"}

\* C20: every ParsedResult the batch run_command returns, whatever the
\* outcome of the invocation and whatever the output, has a `file` field
\* whose value is the instance that was run.
C20_FileIsTheInstance ==
    pdone => /\ "file" \in DOMAIN pfields
             /\ pfields["file"] = ArgVal(ptext.inst)

\* C21: once an instance has completed, what a reader finds in the result
\* store at any moment of a run is the completed results so far: the batch
\* store is a JSON array holding the record of every completed instance,
\* and the streaming store holds a valid line for every completed instance.
C21_ReaderSeesCompletedPrefix ==
    /\ (prog \in BatchProgs /\ wrote # {}) =>
          (bstore.st = "array" /\ \A f \in wrote : HasRecord(bstore.recs, f))
    /\ (prog = "features" /\ wrote # {}) =>
          \A f \in wrote : RecordsOf(store, f) # {}

\* C22: instances are handled one at a time in the lexicographic order of
\* their names; the record of an instance is in the store (or, when the
\* append raised, in the backup location) before the loop goes on to the
\* next instance and invokes the solver for it; every write to a store is
\* the record of the instance in hand, so the records of one run are in
\* instance order.
C22_FlushedInOrder ==
    /\ [](pc # "idle" =>
            \A a, b \in DOMAIN instances : a < b => instances[a] < instances[b])
    /\ [][(pc # "idle" /\ pc' # "idle") =>
            (instances' = instances /\ i' \in {i, i + 1})]_vars
    /\ [][invocations' > invocations =>
            (pc \in {"loop", "run"} /\ i' = i /\ UNCHANGED <<store, bstore, backup>>)]_vars
    /\ []((prog = "features" /\ pc = "move" /\ result # << >>) =>
            /\ saved \in {"store", "backup"}
            /\ saved = "store" => LastFragment(store) = RecFrag(Cur, result)
            /\ saved = "backup" => RecFrag(Cur, result) \in backup)
    /\ []((prog \in BatchProgs /\ pc = "loop" /\ i > 1) =>
            /\ bstore.st = "array"
            /\ bstore.recs # << >>
            /\ bstore.recs[Len(bstore.recs)].file = instances[i - 1])
    /\ [][(prog = "features" /\ store' # store) =>
            LastFragment(store').file = Cur]_vars
    /\ [][(prog \in BatchProgs /\ bstore'.st = "array" /\ bstore'.recs # bstore.recs) =>
            (bstore'.recs = results /\ results[Len(results)].file = Cur)]_vars

\* The solver is about to be invoked for the second instance, the record of
\* the first one being in the store.
C22_SecondAfterFirstStored ==
    /\ prog = "features" /\ pc = "run" /\ i = 2 /\ invocations = 0
    /\ Len(instances) = 2
    /\ RecordsOf(store, instances[1]) # {}

\* C23: two runs at the same time are prevented: a second run started
\* while the first is in progress invokes no solver, moves no instance file
\* and writes to no store.
C23_SecondRunInert ==
    other.invoked = 0 /\ other.wrote = 0 /\ other.moved = 0

\* C24: the feature pipeline moves an instance file to feature_collected
\* only when the record of that instance has been written to
\* ml_features.jsonl or to the backup location; an instance with an empty
\* feature list stays in the solved directory.
C24_MovedOnlyWithRecord ==
    [][(prog = "features" /\ collected' # collected) =>
          (result # << >> /\ saved \in {"store", "backup"})]_vars

\* C25: whenever the solver's log holds a TERMINATE entry, the last entry
\* of the feature record is a TERMINATE entry, wherever in the log the
\* TERMINATE entry lies and whether or not a TIMEOUT entry is present.
C25_TerminateIsLast ==
    (pdone /\ HasEvent(plog, "TERMINATE")) =>
        /\ precord # << >>
        /\ precord[Len(precord)].event = "TERMINATE"

\* C26: a failure to write the debug file changes nothing for the instance:
\* the invocation whose output could not be written to the debug file ends
\* the call with the feature record of that output, as a successful debug
\* write does, and no further invocation is made.
C26_DebugFailureChangesNothing ==
    [][(prog = "features" /\ invocations' = invocations + 1
          /\ lastrun'.kind = "debugfail") =>
          (pc' = "check" /\ result' = parse_output(lastrun'.out, CurK))]_vars

\* C27: every run of the feature pipeline comes to its end; run_command
\* makes at most MAX_RETRIES + 1 invocations for an instance; the loop goes
\* through the enumerated instances one by one, leaves an instance only
\* with an outcome (skipped, persisted, backed up, failed), and the run
\* ends only after the last enumerated instance.
C27_EveryInstanceReachesOutcome ==
    /\ (prog = "features") ~> (pc = "idle")
    /\ [](prog = "features" => invocations <= MAX_RETRIES + 1)
    /\ [][(prog = "features" /\ prog' = "features") =>
            (instances' = instances /\ i' \in {i, i + 1})]_vars
    /\ [][(prog = "features" /\ prog' = "features" /\ i' = i + 1) =>
            \/ pc = "loop" /\ Cur \in processed
            \/ pc = "move" /\ saved \in {"store", "backup"}
            \/ pc = "move" /\ saved = "none" /\ result = << >>]_vars
    /\ [][(prog = "features" /\ pc' = "idle") => i > Len(instances)]_vars

====
